---- MODULE Spec2Model ----
(***************************************************************************)
(* webapp-hub: the window pool (window.rs), the shortcut manager           *)
(* (shortcuts.rs) and the pieces of the command layer that drive them.     *)
(***************************************************************************)
EXTENDS Naturals, Sequences, FiniteSets

\* ------------------------------------------------------------------ bounds

\* webapp identities are 1..NumIds
NumIds == 3
\* largest value handed to set_max_windows (usize in the code)
MaxWindows == 2
\* OS-level shortcuts (parsed hotkeys) are 1..NumKeys
NumKeys == 1
\* longest webapp list of a configuration handed to a resync
MaxWebapps == 1
\* number of add_webapp calls
MaxAdded == 2
\* deferred injection tasks of one webapp that may be pending at once
MaxPending == 1

Ids == 1..NumIds
Keys == 1..NumKeys

VARIABLES
    active_windows,  \* WindowManager.active_windows: keys of the LruCache, LRU first, MRU last
    cache_cap,       \* capacity of that LruCache (NonZeroUsize)
    max_windows,     \* WindowManager.max_windows
    windows,         \* the OS windows labelled webapp-<id>: "none", "active", "hidden"
    disk,            \* config.json as read by the hotkey handler
    registered,      \* ShortcutManager.registered: hotkey string -> target
    listeners,       \* OS listener table: parsed shortcut -> target its handler dispatches to
    os_broken,       \* shortcuts for which the OS currently fails register/unregister calls
    app_config,      \* ConfigManager.config: the configuration in memory
    file,            \* the configuration write_to_file last stored in config.json
    env_proxy,       \* the process-wide HTTP_PROXY setting
    issued,          \* number of webapp ids WebApp::new has generated
    threads,         \* the calls in progress on the runtime's worker threads
    hist,            \* history of the calls in progress
    tasks,           \* deferred injection tasks spawned and not yet run, per webapp
    recency,         \* history: current registry identities by their last open-or-show, oldest first
    last             \* history: the last call, its argument and its result

poolVars == <<active_windows, cache_cap, max_windows, windows>>
shortcutVars == <<registered, listeners, os_broken>>
storeVars == <<app_config, file, env_proxy, issued>>
concVars == <<threads, hist, tasks>>
vars == <<active_windows, cache_cap, max_windows, windows, disk,
          registered, listeners, os_broken, app_config, file, env_proxy, issued,
          threads, hist, tasks, recency, last>>

\* ------------------------------------------------------------ sequences

Range(s) == {s[i] : i \in 1..Len(s)}

Without(s, k) == SelectSeq(s, LAMBDA x : x # k)

Max(a, b) == IF a >= b THEN a ELSE b

\* ------------------------------------------------------------- LruCache
\* The lru crate's cache as the sequence of its keys, least recently used first.

LruGet_NoPromote(cache, k) == cache

\* cache.get(&k): a hit moves k to the most-recently-used end
LruGet(cache, k) ==
    IF k \in Range(cache) THEN Append(Without(cache, k), k) ELSE cache

\* cache.put(k, v): an existing key is refreshed, a new key evicts the LRU entry
\* when the cache is full
LruPut(cache, cap, k) ==
    IF k \in Range(cache) THEN Append(Without(cache, k), k)
    ELSE IF Len(cache) >= cap THEN Append(Tail(cache), k)
    ELSE Append(cache, k)

\* cache.pop(k)
LruPop(cache, k) == Without(cache, k)

LruResize_Keep(cache, cap) == cache

\* cache.resize(cap): pops least-recently-used entries while len > cap
LruResize(cache, cap) ==
    IF Len(cache) > cap THEN SubSeq(cache, Len(cache) - cap + 1, Len(cache))
    ELSE cache

\* --------------------------------------------------------------- windows
\* A window is "active" when is_visible() and is_focused() both hold, the one
\* condition the handlers read; "hidden" is a window that exists and is not the
\* active one (hidden, or visible without the focus).

WinStates == {"none", "active", "hidden"}

Live(w) == {i \in Ids : w[i] # "none"}

\* window.set_focus() on a shown window, or a window just built: it takes the
\* focus from whichever window had it
Focus(w, id) ==
    [j \in Ids |-> IF j = id THEN "active"
                   ELSE IF w[j] = "active" THEN "hidden" ELSE w[j]]

\* window.hide(), and window.show() without the focus
Hide(w, id) == [w EXCEPT ![id] = "hidden"]

\* window.close()
Destroy(w, id) == [w EXCEPT ![id] = "none"]

\* outcomes of the platform calls of one handler: show() then set_focus() as
\* one outcome (either failing returns the error), hide(), build(), close()
Platform == [show : BOOLEAN, hide : BOOLEAN, build : BOOLEAN, close : BOOLEAN]

AllOk == [show |-> TRUE, hide |-> TRUE, build |-> TRUE, close |-> TRUE]

ShowOutcomes == {AllOk, [AllOk EXCEPT !.show = FALSE]}

HideOutcomes == {AllOk, [AllOk EXCEPT !.hide = FALSE]}

CloseOutcomes == {AllOk, [AllOk EXCEPT !.close = FALSE]}

BuildOutcomes == {AllOk, [AllOk EXCEPT !.build = FALSE]}

CreateOutcomes == {[AllOk EXCEPT !.build = b, !.close = c] : b, c \in BOOLEAN}

\* the platform calls open_webapp makes for a window in state ws
OpenOutcomes(ws) == IF ws = "none" THEN CreateOutcomes ELSE ShowOutcomes

ToggleOutcomes(ws) == IF ws = "active" THEN HideOutcomes ELSE OpenOutcomes(ws)

TriggerOutcomes(ws) ==
    IF ws = "none" THEN BuildOutcomes
    ELSE IF ws = "active" THEN HideOutcomes ELSE ShowOutcomes

\* whether the url of the webapp record handed to a call parses; a call that
\* finds the window does not read it
Urls(ws) == IF ws = "none" THEN BOOLEAN ELSE {TRUE}

\* ------------------------------------------------------------ WindowPool

RECURSIVE EnforceLoop(_, _, _, _)
EnforceLoop(cache, w, max, closeOk) ==
    IF Len(cache) >= max /\ Len(cache) > 0
    THEN LET victim == Head(cache)
             w2 == IF w[victim] # "none" /\ closeOk THEN Destroy(w, victim) ELSE w
         IN  EnforceLoop(Tail(cache), w2, max, closeOk)
    ELSE [cache |-> cache, windows |-> w]

\* enforce_window_limit: while len >= max, pop the LRU entry and close its
\* window if it exists; the outcome of window.close() is dropped
EnforceWindowLimit(cache, w, max, closeOk) == EnforceLoop(cache, w, max, closeOk)

\* history: an open-or-show of id (a creation by open, or an open/toggle that
\* showed and focused the window), among the identities the registry holds afterwards
Touched(rec, id, cacheAfter) ==
    SelectSeq(Append(Without(rec, id), id), LAMBDA x : x \in Range(cacheAfter))

Kept(rec, cacheAfter) == SelectSeq(rec, LAMBDA x : x \in Range(cacheAfter))

\* WindowManager::open_webapp as a function of the pool state, the webapp record
\* (its id, whether its url parses) and the platform outcomes
OpenWebapp(cache, w, cap, max, id, url_ok, p) ==
    IF w[id] # "none"
    THEN \* the window exists: show, focus, then refresh the LRU order
         IF ~p.show
         THEN [cache |-> cache, windows |-> w, res |-> "err"]
         ELSE [cache |-> LruGet(cache, id), windows |-> Focus(w, id),
               res |-> "ok"]
    ELSE LET e == EnforceWindowLimit(cache, w, max, p.close)
         IN  IF ~url_ok \/ ~p.build
             THEN [cache |-> e.cache, windows |-> e.windows,
                   res |-> "err"]
             ELSE [cache |-> LruPut(e.cache, cap, id), windows |-> Focus(e.windows, id),
                   res |-> "ok"]

ToggleWebapp_HidePops(cache, w, cap, max, id, url_ok, p) ==
    IF w[id] = "active"
    THEN [cache |-> LruPop(cache, id), windows |-> Hide(w, id), res |-> "Hidden"]
    ELSE IF w[id] # "none"
    THEN [cache |-> LruGet(cache, id), windows |-> Focus(w, id), res |-> "ShownExisting"]
    ELSE LET o == OpenWebapp(cache, w, cap, max, id, url_ok, p)
         IN  [o EXCEPT !.res = IF o.res = "ok" THEN "CreatedNew" ELSE "err"]

\* WindowManager::toggle_webapp
ToggleWebapp(cache, w, cap, max, id, url_ok, p) ==
    IF w[id] = "active"
    THEN IF p.hide
         THEN [cache |-> cache, windows |-> Hide(w, id),
               res |-> "Hidden"]
         ELSE [cache |-> cache, windows |-> w, res |-> "err"]
    ELSE IF w[id] # "none"
    THEN IF ~p.show
         THEN [cache |-> cache, windows |-> w, res |-> "err"]
         ELSE [cache |-> LruGet(cache, id), windows |-> Focus(w, id),
               res |-> "ShownExisting"]
    ELSE LET o == OpenWebapp(cache, w, cap, max, id, url_ok, p)
         IN  [o EXCEPT !.res = IF o.res = "ok" THEN "CreatedNew" ELSE "err"]

\* WindowManager::close_webapp: window.close()? returns before cache.pop
CloseWebapp(cache, w, id, p) ==
    IF w[id] # "none" /\ ~p.close
    THEN [cache |-> cache, windows |-> w, res |-> "err"]
    ELSE [cache |-> LruPop(cache, id), windows |-> Destroy(w, id), res |-> "ok"]

\* Option::None of a proxy url, and an environment variable that is not set
Unset == [scheme |-> "", host |-> "", port |-> 0]

\* open_webapp, window.rs:120-169, on the process environment and the task
\* queue: proxy_url (Unset for None) is set before builder.build() and removed
\* after it returned a window; the injection task is spawned for a window just
\* built when inject says so.  Nothing of this runs when the window exists or
\* the url does not parse.
OpenEffects_SpawnOnShow(w, env, id, url_ok, p, proxy_url, inject) ==
    IF w[id] # "none" THEN [env |-> env, spawn |-> inject /\ p.show]
    ELSE IF ~url_ok THEN [env |-> env, spawn |-> FALSE]
    ELSE IF ~p.build
    THEN [env |-> IF proxy_url # Unset THEN proxy_url ELSE env, spawn |-> FALSE]
    ELSE [env |-> IF proxy_url # Unset THEN Unset ELSE env, spawn |-> inject]

OpenEffects(w, env, id, url_ok, p, proxy_url, inject) ==
    IF w[id] # "none" THEN [env |-> env, spawn |-> FALSE]
    ELSE IF ~url_ok THEN [env |-> env, spawn |-> FALSE]
    ELSE IF ~p.build
    THEN [env |-> IF proxy_url # Unset THEN proxy_url ELSE env, spawn |-> FALSE]
    ELSE [env |-> IF proxy_url # Unset THEN Unset ELSE env, spawn |-> inject]

\* WindowManager::set_max_windows: only the cache is resized
SetMaxWindows(cache, max) ==
    [cap |-> Max(max, 1), max |-> max, cache |-> LruResize(cache, Max(max, 1))]

\* handle_shortcut_trigger for a webapp target: it works on the windows alone,
\* drops every platform error, and builds a missing window from config.json
ShortcutTrigger(w, d, id, p) ==
    IF w[id] = "active" THEN (IF p.hide THEN Hide(w, id) ELSE w)
    ELSE IF w[id] # "none" THEN (IF p.show THEN Focus(w, id) ELSE w)
    ELSE IF d.readable /\ id \in DOMAIN d.webapps /\ d.webapps[id].url_ok /\ p.build
         THEN Focus(w, id)
         ELSE w

\* whether handle_shortcut_trigger passes the webapp's script to
\* WindowManager::inject_script: its body holds no such call on any path
TriggerInjects(w, d, id, p) == FALSE

\* ------------------------------------------------------- ShortcutManager
\* A hotkey string is what the caller typed: the canonical spelling of shortcut
\* key, another spelling of the same shortcut ("ctrl+a" for "Ctrl+A"), a string
\* that does not parse, or the empty string.  NoShortcut is Option::None.

Canon(k) == [key |-> k, form |-> "canon"]
Alias(k) == [key |-> k, form |-> "alias"]
Malformed == [key |-> 0, form |-> "malformed"]
Empty == [key |-> 0, form |-> "empty"]
NoShortcut == [key |-> 0, form |-> "none"]

ValidStrings == {Canon(k) : k \in Keys} \cup {Alias(1)}
HotkeyStrings == ValidStrings \cup {Malformed, Empty}
ShortcutOptions == HotkeyStrings \cup {NoShortcut}

\* the reserved identity "__main__" and the identities of the webapps
MainTarget == 0
Targets == Ids \cup {MainTarget}
\* the targets of the configurations below
ConfigTargets == (1..MaxWebapps) \cup {MainTarget}
\* an OS shortcut without a listener
Unbound == NumIds + 1

\* shortcut_str.parse::<Shortcut>(): 0 stands for the parse error
Parse(s) == IF s.form \in {"canon", "alias"} THEN s.key ELSE 0

MapInsert(m, k, v) == [x \in DOMAIN m \cup {k} |-> IF x = k THEN v ELSE m[x]]

MapRemove(m, k) == [x \in DOMAIN m \ {k} |-> m[x]]

Register_NoDuplicateCheck(reg, lis, broken, s, target) ==
    IF Parse(s) = 0 \/ Parse(s) \in broken
    THEN [registered |-> reg, listeners |-> lis, res |-> "err"]
    ELSE [registered |-> MapInsert(reg, s, target),
          listeners |-> [lis EXCEPT ![Parse(s)] = target], res |-> "ok"]

\* ShortcutManager::register: parse, refuse a string already in the map, install
\* the OS listener (the OS refuses a shortcut that already has one), record it
Register(reg, lis, broken, s, target) ==
    IF Parse(s) = 0
    THEN [registered |-> reg, listeners |-> lis, res |-> "err"]
    ELSE IF s \in DOMAIN reg
    THEN [registered |-> reg, listeners |-> lis, res |-> "err"]
    ELSE IF Parse(s) \in broken \/ lis[Parse(s)] # Unbound
    THEN [registered |-> reg, listeners |-> lis, res |-> "err"]
    ELSE [registered |-> MapInsert(reg, s, target),
          listeners |-> [lis EXCEPT ![Parse(s)] = target], res |-> "ok"]

\* ShortcutManager::unregister: parse, remove the OS listener, then the mapping
Unregister(reg, lis, broken, s) ==
    IF Parse(s) = 0 \/ Parse(s) \in broken
    THEN [registered |-> reg, listeners |-> lis, res |-> "err"]
    ELSE [registered |-> MapRemove(reg, s),
          listeners |-> [lis EXCEPT ![Parse(s)] = Unbound], res |-> "ok"]

RECURSIVE ClearLoop(_, _, _, _)
ClearLoop(todo, reg, lis, broken) ==
    IF todo = {} THEN [registered |-> reg, listeners |-> lis]
    ELSE LET s == CHOOSE x \in todo : TRUE
             u == Unregister(reg, lis, broken, s)
         IN  ClearLoop(todo \ {s}, u.registered, u.listeners, broken)

\* ShortcutManager::clear_all: unregister every key of the map, dropping errors
ClearAll(reg, lis, broken) == ClearLoop(DOMAIN reg, reg, lis, broken)

RECURSIVE RegisterWebapps(_, _, _, _, _)
RegisterWebapps(webapps, i, reg, lis, broken) ==
    IF i > Len(webapps) THEN [registered |-> reg, listeners |-> lis]
    ELSE LET w == webapps[i]
             r == IF w.shortcut # NoShortcut /\ w.shortcut # Empty
                  THEN Register(reg, lis, broken, w.shortcut, w.id)
                  ELSE [registered |-> reg, listeners |-> lis, res |-> "skip"]
         IN  RegisterWebapps(webapps, i + 1, r.registered, r.listeners, broken)

LoadShortcutsFromConfig_StopAtError(reg, lis, broken, config) ==
    LET c == ClearAll(reg, lis, broken)
        bad == {i \in 1..Len(config.webapps) : Parse(config.webapps[i].shortcut) = 0
                    /\ config.webapps[i].shortcut \notin {NoShortcut, Empty}}
        upto == IF bad = {} THEN Len(config.webapps)
                ELSE (CHOOSE i \in bad : \A j \in bad : i <= j) - 1
        w == RegisterWebapps(SubSeq(config.webapps, 1, upto), 1,
                             c.registered, c.listeners, broken)
    IN  IF bad # {} THEN [registered |-> w.registered, listeners |-> w.listeners, res |-> "err"]
        ELSE [registered |-> w.registered, listeners |-> w.listeners, res |-> "ok"]

\* load_shortcuts_from_config: clear_all, register every webapp's non-empty
\* shortcut in list order, then the main-window shortcut; errors are logged
LoadShortcutsFromConfig(reg, lis, broken, config) ==
    LET c == ClearAll(reg, lis, broken)
        w == RegisterWebapps(config.webapps, 1, c.registered, c.listeners, broken)
        m == IF config.main_window_shortcut # NoShortcut
                /\ config.main_window_shortcut # Empty
             THEN Register(w.registered, w.listeners, broken,
                           config.main_window_shortcut, MainTarget)
             ELSE [registered |-> w.registered, listeners |-> w.listeners, res |-> "skip"]
    IN  [registered |-> m.registered, listeners |-> m.listeners, res |-> "ok"]

\* the configurations handed to a resync: the webapp at position i has identity i
ConfigsOfLen(n) ==
    {[webapps |-> [i \in 1..n |-> [id |-> i, shortcut |-> f[i]]],
      main_window_shortcut |-> m] :
        f \in [1..n -> ShortcutOptions], m \in ShortcutOptions}

Configs == UNION {ConfigsOfLen(n) : n \in 0..MaxWebapps}

\* history: what a configuration asks of a resync: for every well-formed hotkey
\* string in it, the first item carrying the string (the webapps in list order,
\* then the main-window shortcut) and that item's identity
Wanted(config) ==
    LET n == Len(config.webapps)
        item(i) == IF i <= n THEN [s |-> config.webapps[i].shortcut, id |-> config.webapps[i].id]
                   ELSE [s |-> config.main_window_shortcut, id |-> MainTarget]
        used == {x \in {item(i).s : i \in 1..(n + 1)} : Parse(x) # 0}
        first(x) == CHOOSE i \in 1..(n + 1) : item(i).s = x /\ \A j \in 1..(i - 1) : item(j).s # x
    IN  [x \in used |-> [id |-> item(first(x)).id, pos |-> first(x)]]

\* history: some webapp of the configuration carries a shortcut that does not parse
HasMalformed(config) ==
    \E i \in 1..Len(config.webapps) : config.webapps[i].shortcut = Malformed

DiskConfig ==
    [readable |-> TRUE,
     webapps |-> [i \in Ids |-> [id |-> i, url_ok |-> (i # NumIds),
                                 inject_on_shortcut |-> (i = 1),
                                 has_script |-> (i = 1)]]]

\* ----------------------------------------------------------- ConfigStore
\* An AppConfig is its webapp list (id, shortcut, order of each), its proxy, its
\* max_active_windows and its main-window shortcut.

\* ProxyConfig::default(), and the proxy settings a caller hands in
DefaultProxy == [enabled |-> FALSE, host |-> "", port |-> 0, proxy_type |-> "http"]
GoodProxy == [enabled |-> TRUE, host |-> "127.0.0.1", port |-> 7890, proxy_type |-> "http"]
Proxies ==
    {DefaultProxy, GoodProxy,
     [GoodProxy EXCEPT !.host = ""], [GoodProxy EXCEPT !.port = 0],
     [GoodProxy EXCEPT !.proxy_type = "ftp"]}

ValidateConfig_HostUnchecked(proxy) ==
    IF ~proxy.enabled THEN "ok"
    ELSE IF proxy.port = 0 THEN "err"
    ELSE IF proxy.proxy_type \notin {"http", "https", "socks5"} THEN "err"
    ELSE "ok"

\* ProxyManager::validate_config
ValidateConfig(proxy) ==
    IF ~proxy.enabled THEN "ok"
    ELSE IF proxy.host = "" THEN "err"
    ELSE IF proxy.port = 0 THEN "err"
    ELSE IF proxy.proxy_type \notin {"http", "https", "socks5"} THEN "err"
    ELSE "ok"

\* ProxyConfig::get_proxy_url: None (Unset) when disabled or without a host
GetProxyUrl(proxy) ==
    IF ~proxy.enabled \/ proxy.host = "" THEN Unset
    ELSE [scheme |-> proxy.proxy_type, host |-> proxy.host, port |-> proxy.port]

\* ProxyManager::apply_proxy on the process environment
ApplyProxy(env, proxy) ==
    IF ~proxy.enabled THEN Unset
    ELSE IF proxy.host = "" THEN env
    ELSE GetProxyUrl(proxy)

\* AppConfig::default() has max_active_windows = 5
DefaultMaxWindows == 5

DefaultConfig ==
    [webapps |-> <<>>, proxy |-> DefaultProxy,
     max_active_windows |-> DefaultMaxWindows, main_window_shortcut |-> NoShortcut]

\* the configurations handed to save_config
SaveConfigs ==
    {[webapps |-> [i \in 1..Len(c.webapps) |->
                      [id |-> c.webapps[i].id, shortcut |-> c.webapps[i].shortcut,
                       order |-> i - 1]],
      proxy |-> p, max_active_windows |-> n,
      main_window_shortcut |-> c.main_window_shortcut] :
        c \in Configs, p \in Proxies, n \in 0..MaxWindows}

\* ConfigManager::write_to_file
WriteToFile(fl, cfg, write_ok) ==
    [file |-> IF write_ok THEN cfg ELSE fl, res |-> IF write_ok THEN "ok" ELSE "err"]

ConfigUpdate_Rollback(mem, fl, new, write_ok) ==
    [config |-> IF write_ok THEN new ELSE mem,
     file |-> WriteToFile(fl, new, write_ok).file,
     res |-> WriteToFile(fl, new, write_ok).res]

\* ConfigManager::update(f) where new = f(mem): the closure mutates the memory
\* under the write lock, then the copy is written to the file
ConfigUpdate(mem, fl, new, write_ok) ==
    [config |-> new,
     file |-> WriteToFile(fl, new, write_ok).file,
     res |-> WriteToFile(fl, new, write_ok).res]

\* ConfigManager::replace
ConfigReplace(mem, fl, new, write_ok) ==
    [config |-> new,
     file |-> WriteToFile(fl, new, write_ok).file,
     res |-> WriteToFile(fl, new, write_ok).res]

\* config.webapps.iter().find(|w| w.id == id): its position, 0 when there is none
FindWebapp(cfg, id) ==
    LET hits == {i \in 1..Len(cfg.webapps) : cfg.webapps[i].id = id}
    IN  IF hits = {} THEN 0 ELSE CHOOSE i \in hits : \A j \in hits : i <= j

\* commands::open_webapp: the proxy url handed to WindowManager::open_webapp
ProxyUrlFor(cfg, id) ==
    LET i == FindWebapp(cfg, id)
    IN  IF i # 0 /\ cfg.webapps[i].use_proxy /\ cfg.proxy.enabled
        THEN GetProxyUrl(cfg.proxy) ELSE Unset

\* webapp.inject_on_load with webapp.inject_script present, window.rs:138-139
InjectsOnLoad(cfg, id) ==
    LET i == FindWebapp(cfg, id)
    IN  i # 0 /\ cfg.webapps[i].inject_on_load /\ cfg.webapps[i].has_script

AddMutator_OrderZero(cfg, id, shortcut) ==
    [cfg EXCEPT !.webapps = Append(@, [id |-> id, shortcut |-> shortcut, order |-> 0])]

\* the closure of add_webapp: order = current list length, then push
AddMutator(cfg, id, shortcut) ==
    [cfg EXCEPT !.webapps =
        Append(@, [id |-> id, shortcut |-> shortcut, order |-> Len(cfg.webapps)])]

\* the closure of update_webapp for the shortcut argument: None leaves the
\* shortcut, the empty string clears it
UpdateMutator(cfg, id, shortcut) ==
    LET i == FindWebapp(cfg, id)
    IN  IF i = 0 \/ shortcut = NoShortcut THEN cfg
        ELSE [cfg EXCEPT !.webapps[i].shortcut =
                 IF shortcut = Empty THEN NoShortcut ELSE shortcut]

\* the closure of delete_webapp: retain(|w| w.id != id)
DeleteMutator(cfg, id) ==
    [cfg EXCEPT !.webapps = SelectSeq(@, LAMBDA w : w.id # id)]

\* config.json as the hotkey handler reads it back
DiskView(cfg) ==
    [readable |-> TRUE,
     webapps |-> [i \in {cfg.webapps[j].id : j \in 1..Len(cfg.webapps)} |->
                     DiskConfig.webapps[i]]]

\* worker threads of the async runtime that serve the commands
NumThreads == 2
Threads == 1..NumThreads

\* no call in progress
Idle == [pc |-> "idle"]
NoHistory == [start |-> <<>>, builds |-> [i \in Ids |-> 0], max |-> 0]

\* the configuration behind the pool's start state: webapp k carries shortcut k
StartConfig ==
    [webapps |-> [i \in 1..NumIds |->
                     [id |-> i, shortcut |-> IF i \in Keys THEN Canon(i) ELSE NoShortcut,
                      order |-> i - 1, use_proxy |-> TRUE,
                      inject_on_load |-> FALSE, has_script |-> FALSE]],
     proxy |-> DefaultProxy, max_active_windows |-> MaxWindows,
     main_window_shortcut |-> NoShortcut]

\* a configuration with an enabled proxy whose webapps differ in use_proxy,
\* inject_on_load and the presence of inject_script
OpenConfig ==
    [StartConfig EXCEPT
        !.proxy = GoodProxy,
        !.webapps = [i \in 1..NumIds |->
                        [StartConfig.webapps[i] EXCEPT
                            !.use_proxy = (i # 2),
                            !.inject_on_load = (i <= 2),
                            !.has_script = (i % 2 = 1)]]]

NoTasks == [i \in Ids |-> 0]

\* ------------------------------------------------------------------ Init

\* The pool after WindowManager::new(config.max_active_windows), with the
\* shortcuts of the configured webapps registered: shortcut k fires webapp k
Init ==
    /\ active_windows = <<>>
    /\ cache_cap = MaxWindows
    /\ max_windows = MaxWindows
    /\ windows = [i \in Ids |-> "none"]
    /\ disk = DiskConfig
    /\ registered = [s \in {Canon(k) : k \in Keys \cap Ids} |-> s.key]
    /\ listeners = [k \in Keys |-> IF k \in Ids THEN k ELSE Unbound]
    /\ os_broken = {}
    /\ app_config = StartConfig
    /\ file = StartConfig
    /\ env_proxy = Unset
    /\ issued = NumIds
    /\ threads = [t \in Threads |-> Idle]
    /\ hist = NoHistory
    /\ tasks = NoTasks
    /\ recency = <<>>
    /\ last = [op |-> "new", id |-> 0, res |-> "ok", again |-> FALSE]

\* ShortcutManager::new(): nothing registered
InitShortcuts ==
    /\ active_windows = <<>>
    /\ cache_cap = MaxWindows
    /\ max_windows = MaxWindows
    /\ windows = [i \in Ids |-> "none"]
    /\ disk = DiskConfig
    /\ registered = <<>>
    /\ listeners = [k \in Keys |-> Unbound]
    /\ os_broken = {}
    /\ app_config = DefaultConfig
    /\ file = DefaultConfig
    /\ env_proxy = Unset
    /\ issued = 0
    /\ threads = [t \in Threads |-> Idle]
    /\ hist = NoHistory
    /\ tasks = NoTasks
    /\ recency = <<>>
    /\ last = [op |-> "new", id |-> 0, res |-> "ok", again |-> FALSE]

\* --------------------------------------------------------------- actions

\* history: the call repeats the previous call, which had succeeded
Again(op, id) == last.op = op /\ last.id = id /\ last.res = "ok"

\* commands::open_webapp with the record of webapp id in the configuration
open_webapp(id, url_ok, p) ==
    LET o == OpenWebapp(active_windows, windows, cache_cap, max_windows, id, url_ok, p)
        e == OpenEffects(windows, env_proxy, id, url_ok, p,
                         ProxyUrlFor(app_config, id), InjectsOnLoad(app_config, id))
    IN  /\ e.spawn => tasks[id] < MaxPending
        /\ active_windows' = o.cache
        /\ windows' = o.windows
        /\ env_proxy' = e.env
        /\ tasks' = IF e.spawn THEN [tasks EXCEPT ![id] = @ + 1] ELSE tasks
        /\ recency' = IF o.res = "ok" THEN Touched(recency, id, o.cache)
                      ELSE Kept(recency, o.cache)
        /\ last' = [op |-> "open", id |-> id, res |-> o.res,
                    again |-> Again("open", id)]
        /\ UNCHANGED <<cache_cap, max_windows, disk, app_config, file, issued,
                       threads, hist, shortcutVars>>

toggle_webapp(id, url_ok, p) ==
    LET o == ToggleWebapp(active_windows, windows, cache_cap, max_windows, id, url_ok, p)
        e == OpenEffects(windows, env_proxy, id, url_ok, p,
                         ProxyUrlFor(app_config, id), InjectsOnLoad(app_config, id))
    IN  /\ e.spawn => tasks[id] < MaxPending
        /\ active_windows' = o.cache
        /\ windows' = o.windows
        /\ env_proxy' = e.env
        /\ tasks' = IF e.spawn THEN [tasks EXCEPT ![id] = @ + 1] ELSE tasks
        /\ recency' = IF o.res \in {"ShownExisting", "CreatedNew"}
                      THEN Touched(recency, id, o.cache)
                      ELSE Kept(recency, o.cache)
        /\ last' = [op |-> "toggle", id |-> id, res |-> o.res, again |-> FALSE]
        /\ UNCHANGED <<cache_cap, max_windows, disk, app_config, file, issued,
                       threads, hist, shortcutVars>>

close_webapp(id, p) ==
    LET o == CloseWebapp(active_windows, windows, id, p)
    IN  /\ active_windows' = o.cache
        /\ windows' = o.windows
        /\ recency' = Kept(recency, o.cache)
        /\ last' = [op |-> "close", id |-> id, res |-> o.res,
                    again |-> Again("close", id)]
        /\ UNCHANGED <<cache_cap, max_windows, disk, storeVars, concVars, shortcutVars>>

set_max_windows(n) ==
    LET o == SetMaxWindows(active_windows, n)
    IN  /\ cache_cap' = o.cap
        /\ max_windows' = o.max
        /\ active_windows' = o.cache
        /\ recency' = Kept(recency, o.cache)
        /\ last' = [op |-> "set_max_windows", id |-> n, res |-> "ok", again |-> FALSE]
        /\ UNCHANGED <<windows, disk, storeVars, concVars, shortcutVars>>

\* the OS fires the listener of shortcut k, whose closure holds its target
handle_shortcut_trigger(k, p) ==
    /\ windows' = ShortcutTrigger(windows, disk, listeners[k], p)
    /\ last' = [op |-> "trigger", id |-> listeners[k], res |-> "ok", again |-> FALSE,
                inject |-> TriggerInjects(windows, disk, listeners[k], p)]
    /\ UNCHANGED <<active_windows, cache_cap, max_windows, disk, storeVars, concVars,
                   shortcutVars, recency>>

\* the user closes a webapp window: on_window_event only acts on the main window
window_closed_by_user(id) ==
    /\ windows[id] # "none"
    /\ windows' = Destroy(windows, id)
    /\ last' = [op |-> "os", id |-> id, res |-> "ok", again |-> FALSE]
    /\ UNCHANGED <<active_windows, cache_cap, max_windows, disk, storeVars, concVars,
                   shortcutVars, recency>>

\* the focus moves to a window outside the pool
focus_lost(id) ==
    /\ windows[id] = "active"
    /\ windows' = Hide(windows, id)
    /\ last' = [op |-> "os", id |-> id, res |-> "ok", again |-> FALSE]
    /\ UNCHANGED <<active_windows, cache_cap, max_windows, disk, storeVars, concVars,
                   shortcutVars, recency>>

\* commands::register_shortcut
register_shortcut(s, target) ==
    LET o == Register(registered, listeners, os_broken, s, target)
    IN  /\ registered' = o.registered
        /\ listeners' = o.listeners
        /\ last' = [op |-> "register", id |-> target, res |-> o.res, again |-> FALSE]
        /\ UNCHANGED <<poolVars, disk, storeVars, concVars, os_broken, recency>>

\* commands::unregister_shortcut
unregister_shortcut(s) ==
    LET o == Unregister(registered, listeners, os_broken, s)
    IN  /\ registered' = o.registered
        /\ listeners' = o.listeners
        /\ last' = [op |-> "unregister", id |-> 0, res |-> o.res, again |-> FALSE]
        /\ UNCHANGED <<poolVars, disk, storeVars, concVars, os_broken, recency>>

\* load_shortcuts_from_config, as save_config calls it with the configuration saved
load_shortcuts_from_config(config) ==
    LET o == LoadShortcutsFromConfig(registered, listeners, os_broken, config)
    IN  /\ registered' = o.registered
        /\ listeners' = o.listeners
        /\ last' = [op |-> "resync", id |-> 0, res |-> o.res, again |-> FALSE,
                    want |-> Wanted(config), bad |-> HasMalformed(config)]
        /\ UNCHANGED <<poolVars, disk, storeVars, concVars, os_broken, recency>>

\* CloseRequested on the main window: clear_all
main_window_close_requested ==
    LET o == ClearAll(registered, listeners, os_broken)
    IN  /\ registered' = o.registered
        /\ listeners' = o.listeners
        /\ last' = [op |-> "clear_all", id |-> 0, res |-> "ok", again |-> FALSE]
        /\ UNCHANGED <<poolVars, disk, storeVars, concVars, os_broken, recency>>

\* the OS starts failing the calls for shortcut k
os_fault(k) ==
    /\ k \notin os_broken
    /\ os_broken' = os_broken \cup {k}
    /\ last' = [op |-> "os", id |-> 0, res |-> "ok", again |-> FALSE]
    /\ UNCHANGED <<poolVars, disk, storeVars, concVars, registered, listeners, recency>>

\* the OS serves the calls for shortcut k again
os_repair(k) ==
    /\ k \in os_broken
    /\ os_broken' = os_broken \ {k}
    /\ last' = [op |-> "os", id |-> 0, res |-> "ok", again |-> FALSE]
    /\ UNCHANGED <<poolVars, disk, storeVars, concVars, registered, listeners, recency>>

Next ==
    \/ \E id \in Ids : \E url_ok \in Urls(windows[id]), p \in OpenOutcomes(windows[id]) :
           open_webapp(id, url_ok, p)
    \/ \E id \in Ids : \E url_ok \in Urls(windows[id]), p \in ToggleOutcomes(windows[id]) :
           toggle_webapp(id, url_ok, p)
    \/ \E id \in Ids, p \in CloseOutcomes : close_webapp(id, p)
    \/ \E n \in 0..MaxWindows : set_max_windows(n)
    \/ \E k \in Keys : \E p \in TriggerOutcomes(windows[listeners[k]]) :
           handle_shortcut_trigger(k, p)
    \/ \E id \in Ids : window_closed_by_user(id)
    \/ \E id \in Ids : focus_lost(id)

Spec == Init /\ [][Next]_vars

NextShortcuts ==
    \/ \E s \in HotkeyStrings, target \in ConfigTargets : register_shortcut(s, target)
    \/ \E s \in HotkeyStrings : unregister_shortcut(s)
    \/ \E config \in Configs : load_shortcuts_from_config(config)
    \/ main_window_close_requested
    \/ \E k \in Keys : os_fault(k)
    \/ \E k \in Keys : os_repair(k)

SpecShortcuts == InitShortcuts /\ [][NextShortcuts]_vars

\* the pool's calls alone, on a platform whose calls all succeed
NextReliable ==
    \/ \E id \in Ids : \E url_ok \in Urls(windows[id]) : open_webapp(id, url_ok, AllOk)
    \/ \E id \in Ids : \E url_ok \in Urls(windows[id]) : toggle_webapp(id, url_ok, AllOk)
    \/ \E id \in Ids : close_webapp(id, AllOk)
    \/ \E n \in 0..MaxWindows : set_max_windows(n)
    \/ \E k \in Keys : handle_shortcut_trigger(k, AllOk)

SpecReliable == Init /\ [][NextReliable]_vars

\* the task spawned at window.rs:147-167 wakes up: window_clone.eval, whose
\* result is logged either way
injection_task(id, eval_ok) ==
    /\ tasks[id] > 0
    /\ tasks' = [tasks EXCEPT ![id] = @ - 1]
    /\ last' = [op |-> "injection", id |-> id, again |-> FALSE,
                res |-> IF windows[id] # "none" /\ eval_ok THEN "injected" ELSE "logged"]
    /\ UNCHANGED <<poolVars, disk, shortcutVars, storeVars, threads, hist, recency>>

\* the pool of Init behind a configuration with a proxy and injection scripts
InitOpen ==
    /\ active_windows = <<>>
    /\ cache_cap = MaxWindows
    /\ max_windows = MaxWindows
    /\ windows = [i \in Ids |-> "none"]
    /\ disk = DiskConfig
    /\ registered = <<>>
    /\ listeners = [k \in Keys |-> Unbound]
    /\ os_broken = {}
    /\ app_config = OpenConfig
    /\ file = OpenConfig
    /\ env_proxy = Unset
    /\ issued = NumIds
    /\ threads = [t \in Threads |-> Idle]
    /\ hist = NoHistory
    /\ tasks = NoTasks
    /\ recency = <<>>
    /\ last = [op |-> "new", id |-> 0, res |-> "ok", again |-> FALSE]

NextOpen ==
    \/ \E id \in Ids : \E url_ok \in Urls(windows[id]), p \in OpenOutcomes(windows[id]) :
           open_webapp(id, url_ok, p)
    \/ \E id \in Ids, p \in CloseOutcomes : close_webapp(id, p)
    \/ \E id \in Ids, eval_ok \in BOOLEAN : injection_task(id, eval_ok)

SpecOpen == InitOpen /\ [][NextOpen]_vars

\* ------------------------------------------------- configuration commands

\* ConfigManager::new on a missing config.json, WindowManager::new on its
\* max_active_windows, ShortcutManager::new
InitConfig ==
    /\ active_windows = <<>>
    /\ cache_cap = Max(DefaultConfig.max_active_windows, 1)
    /\ max_windows = DefaultConfig.max_active_windows
    /\ windows = [i \in Ids |-> "none"]
    /\ disk = DiskView(DefaultConfig)
    /\ registered = <<>>
    /\ listeners = [k \in Keys |-> Unbound]
    /\ os_broken = {}
    /\ app_config = DefaultConfig
    /\ file = DefaultConfig
    /\ env_proxy = Unset
    /\ issued = 0
    /\ threads = [t \in Threads |-> Idle]
    /\ hist = NoHistory
    /\ tasks = NoTasks
    /\ recency = <<>>
    /\ last = [op |-> "new", id |-> 0, res |-> "ok", again |-> FALSE,
               store |-> "none", write_ok |-> TRUE, asked |-> DefaultConfig]

\* history: the command, its result, the result of its ConfigManager call
\* ("none" when it made none), the fate of the storage write and the configuration
\* the call asked the ConfigManager to hold
Called(op, id, res, store, write_ok, asked) ==
    [op |-> op, id |-> id, res |-> res, again |-> FALSE,
     store |-> store, write_ok |-> write_ok, asked |-> asked]

\* commands::save_config
save_config(new, write_ok) ==
    IF ValidateConfig(new.proxy) = "err"
    THEN /\ last' = Called("save_config", 0, "err", "none", write_ok, app_config)
         /\ UNCHANGED <<poolVars, disk, shortcutVars, storeVars, concVars, recency>>
    ELSE LET r == ConfigReplace(app_config, file, new, write_ok)
             m == SetMaxWindows(active_windows, new.max_active_windows)
             l == LoadShortcutsFromConfig(registered, listeners, os_broken, new)
         IN  /\ app_config' = r.config
             /\ file' = r.file
             /\ disk' = DiskView(r.file)
             /\ last' = Called("save_config", 0, r.res, r.res, write_ok, new)
             /\ IF r.res = "err"
                THEN UNCHANGED <<poolVars, shortcutVars, env_proxy, recency>>
                ELSE /\ env_proxy' = ApplyProxy(env_proxy, new.proxy)
                     /\ cache_cap' = m.cap
                     /\ max_windows' = m.max
                     /\ active_windows' = m.cache
                     /\ recency' = Kept(recency, m.cache)
                     /\ registered' = l.registered
                     /\ listeners' = l.listeners
                     /\ UNCHANGED <<windows, os_broken>>
             /\ UNCHANGED <<issued, concVars>>

\* commands::add_webapp: WebApp::new draws a fresh id
add_webapp(shortcut, write_ok) ==
    /\ issued < MaxAdded
    /\ LET id == issued + 1
           new == AddMutator(app_config, id, shortcut)
           r == ConfigUpdate(app_config, file, new, write_ok)
           g == IF r.res = "ok" /\ shortcut # NoShortcut /\ shortcut # Empty
                THEN Register(registered, listeners, os_broken, shortcut, id)
                ELSE [registered |-> registered, listeners |-> listeners, res |-> "skip"]
       IN  /\ issued' = id
           /\ app_config' = r.config
           /\ file' = r.file
           /\ disk' = DiskView(r.file)
           /\ registered' = g.registered
           /\ listeners' = g.listeners
           /\ last' = Called("add_webapp", id, r.res, r.res, write_ok, new)
    /\ UNCHANGED <<poolVars, os_broken, env_proxy, concVars, recency>>

\* commands::update_webapp, for its shortcut argument
update_webapp(id, shortcut, write_ok) ==
    LET i == FindWebapp(app_config, id)
        old == IF i = 0 THEN NoShortcut ELSE app_config.webapps[i].shortcut
        new == UpdateMutator(app_config, id, shortcut)
        now == IF i = 0 THEN NoShortcut ELSE new.webapps[i].shortcut
        r == ConfigUpdate(app_config, file, new, write_ok)
        u == IF old # NoShortcut
             THEN Unregister(registered, listeners, os_broken, old)
             ELSE [registered |-> registered, listeners |-> listeners, res |-> "skip"]
        g == IF now # NoShortcut /\ now # Empty
             THEN Register(u.registered, u.listeners, os_broken, now, id)
             ELSE [registered |-> u.registered, listeners |-> u.listeners, res |-> "skip"]
    IN  /\ app_config' = r.config
        /\ file' = r.file
        /\ disk' = DiskView(r.file)
        /\ last' = Called("update_webapp", id,
                          IF r.res = "err" \/ i = 0 THEN "err" ELSE "ok",
                          r.res, write_ok, new)
        /\ IF r.res = "err" \/ i = 0
           THEN UNCHANGED <<registered, listeners>>
           ELSE registered' = g.registered /\ listeners' = g.listeners
        /\ UNCHANGED <<poolVars, os_broken, env_proxy, issued, concVars, recency>>

\* commands::delete_webapp
delete_webapp(id, write_ok, p) ==
    LET i == FindWebapp(app_config, id)
        new == DeleteMutator(app_config, id)
        r == ConfigUpdate(app_config, file, new, write_ok)
        u == IF i # 0 /\ app_config.webapps[i].shortcut # NoShortcut
             THEN Unregister(registered, listeners, os_broken, app_config.webapps[i].shortcut)
             ELSE [registered |-> registered, listeners |-> listeners, res |-> "skip"]
        c == CloseWebapp(active_windows, windows, id, p)
    IN  /\ app_config' = r.config
        /\ file' = r.file
        /\ disk' = DiskView(r.file)
        /\ last' = Called("delete_webapp", id, r.res, r.res, write_ok, new)
        /\ IF r.res = "err" \/ i = 0
           THEN UNCHANGED <<registered, listeners, active_windows, windows, recency>>
           ELSE /\ registered' = u.registered
                /\ listeners' = u.listeners
                /\ active_windows' = c.cache
                /\ windows' = c.windows
                /\ recency' = Kept(recency, c.cache)
        /\ UNCHANGED <<cache_cap, max_windows, os_broken, env_proxy, issued, concVars>>

\* commands::set_max_active_windows
set_max_active_windows(n, write_ok) ==
    IF n = 0
    THEN /\ last' = Called("set_max_active_windows", n, "err", "none", write_ok, app_config)
         /\ UNCHANGED <<poolVars, disk, shortcutVars, storeVars, concVars, recency>>
    ELSE LET m == SetMaxWindows(active_windows, n)
             new == [app_config EXCEPT !.max_active_windows = n]
             r == ConfigUpdate(app_config, file, new, write_ok)
         IN  /\ cache_cap' = m.cap
             /\ max_windows' = m.max
             /\ active_windows' = m.cache
             /\ recency' = Kept(recency, m.cache)
             /\ app_config' = r.config
             /\ file' = r.file
             /\ disk' = DiskView(r.file)
             /\ last' = Called("set_max_active_windows", n, r.res, r.res, write_ok, new)
             /\ UNCHANGED <<windows, shortcutVars, env_proxy, issued, concVars>>

\* commands::set_proxy_config
set_proxy_config(proxy, write_ok) ==
    IF ValidateConfig(proxy) = "err"
    THEN /\ last' = Called("set_proxy_config", 0, "err", "none", write_ok, app_config)
         /\ UNCHANGED <<poolVars, disk, shortcutVars, storeVars, concVars, recency>>
    ELSE LET new == [app_config EXCEPT !.proxy = proxy]
             r == ConfigUpdate(app_config, file, new, write_ok)
         IN  /\ app_config' = r.config
             /\ file' = r.file
             /\ disk' = DiskView(r.file)
             /\ env_proxy' = IF r.res = "ok" THEN ApplyProxy(env_proxy, proxy) ELSE env_proxy
             /\ last' = Called("set_proxy_config", 0, r.res, r.res, write_ok, new)
             /\ UNCHANGED <<poolVars, shortcutVars, issued, concVars, recency>>

\* the configurations save_config is handed when the webapp list is edited: the
\* default proxy, the limit unchanged
SaveWebapps ==
    {c \in SaveConfigs : c.proxy = DefaultProxy /\ c.max_active_windows = MaxWindows}

\* the configurations save_config is handed from the settings page: no webapps
SaveSettings == {c \in SaveConfigs : Len(c.webapps) = 0}

\* the same without a main-window shortcut
SaveStore == {c \in SaveSettings : c.main_window_shortcut = NoShortcut}

\* the commands that edit the webapp list, on a storage that does not fail
NextConfig ==
    \/ \E new \in SaveWebapps : save_config(new, TRUE)
    \/ \E shortcut \in ShortcutOptions : add_webapp(shortcut, TRUE)
    \/ \E id \in Ids, shortcut \in ShortcutOptions : update_webapp(id, shortcut, TRUE)
    \/ \E id \in Ids : delete_webapp(id, TRUE, AllOk)

SpecConfig == InitConfig /\ [][NextConfig]_vars

\* the commands of the settings page, on a storage that does not fail
NextSettings ==
    \/ \E new \in SaveSettings : save_config(new, TRUE)
    \/ \E n \in 0..MaxWindows : set_max_active_windows(n, TRUE)
    \/ \E proxy \in Proxies : set_proxy_config(proxy, TRUE)

SpecSettings == InitConfig /\ [][NextSettings]_vars

\* the same commands on a storage whose writes may fail
NextStore ==
    \/ \E new \in SaveStore, write_ok \in BOOLEAN : save_config(new, write_ok)
    \/ \E n \in 0..MaxWindows, write_ok \in BOOLEAN : set_max_active_windows(n, write_ok)
    \/ \E proxy \in Proxies, write_ok \in BOOLEAN : set_proxy_config(proxy, write_ok)

SpecStore == InitConfig /\ [][NextStore]_vars

\* ------------------------------------------------------ concurrent calls
\* The commands are async: the runtime serves them on several worker threads,
\* and a call of the WindowManager takes and releases its mutexes statement by
\* statement.  Each thread below runs one call; every platform call succeeds.

\* the registries of a quiescent pool: distinct identities, at most max of them
Registries(max) ==
    UNION {{c \in [1..n -> Ids] : \A i, j \in 1..n : i # j => c[i] # c[j]} :
              n \in 0..max}

\* the windows behind a registry whose identities were opened in its order
WindowsOf(cache) ==
    [i \in Ids |-> IF i \notin Range(cache) THEN "none"
                   ELSE IF i = cache[Len(cache)] THEN "active" ELSE "hidden"]

InitConcurrent ==
    /\ max_windows \in 1..MaxWindows
    /\ cache_cap = max_windows
    /\ active_windows \in Registries(max_windows)
    /\ windows = WindowsOf(active_windows)
    /\ disk = DiskConfig
    /\ registered = <<>>
    /\ listeners = [k \in Keys |-> Unbound]
    /\ os_broken = {}
    /\ app_config = StartConfig
    /\ file = StartConfig
    /\ env_proxy = Unset
    /\ issued = NumIds
    /\ threads = [t \in Threads |-> Idle]
    /\ hist = [NoHistory EXCEPT !.start = active_windows]
    /\ tasks = NoTasks
    /\ recency = active_windows
    /\ last = [op |-> "new", id |-> 0, res |-> "ok", again |-> FALSE]

\* the call of thread t returns res
Return(t, res) == [threads EXCEPT ![t] = [@ EXCEPT !.pc = "done", !.res = res]]

Goto(t, pc) == [threads EXCEPT ![t].pc = pc]

\* a thread enters WindowManager::open_webapp
open_begin(t, id) ==
    /\ threads[t].pc = "idle"
    /\ threads' = [threads EXCEPT ![t] = [pc |-> "check", op |-> "open", id |-> id, res |-> "none"]]
    /\ UNCHANGED <<poolVars, disk, shortcutVars, storeVars, hist, tasks, recency, last>>

\* a thread enters WindowManager::toggle_webapp
toggle_begin(t, id) ==
    /\ threads[t].pc = "idle"
    /\ threads' = [threads EXCEPT ![t] = [pc |-> "look", op |-> "toggle", id |-> id, res |-> "none"]]
    /\ UNCHANGED <<poolVars, disk, shortcutVars, storeVars, hist, tasks, recency, last>>

\* toggle_webapp, window.rs:208-221: look the window up; hide it, or show and
\* focus it, or go on to open_webapp
toggle_look(t) ==
    LET id == threads[t].id
    IN  /\ threads[t].pc = "look"
        /\ IF windows[id] = "active"
           THEN windows' = Hide(windows, id) /\ threads' = Return(t, "Hidden")
           ELSE IF windows[id] # "none"
           THEN windows' = Focus(windows, id) /\ threads' = Goto(t, "touch")
           ELSE windows' = windows /\ threads' = Goto(t, "check")
        /\ UNCHANGED <<active_windows, cache_cap, max_windows, disk, shortcutVars,
                       storeVars, hist, tasks, recency, last>>

\* open_webapp, window.rs:94-97: look the window up; show and focus it if it exists
open_check(t) ==
    LET id == threads[t].id
    IN  /\ threads[t].pc = "check"
        /\ IF windows[id] # "none"
           THEN windows' = Focus(windows, id) /\ threads' = Goto(t, "touch")
           ELSE windows' = windows /\ threads' = Goto(t, "enforce")
        /\ UNCHANGED <<active_windows, cache_cap, max_windows, disk, shortcutVars,
                       storeVars, hist, tasks, recency, last>>

\* window.rs:100-103 and 223-227: lock the cache, cache.get, return
open_touch(t) ==
    /\ threads[t].pc = "touch"
    /\ active_windows' = LruGet(active_windows, threads[t].id)
    /\ threads' = Return(t, IF threads[t].op = "toggle" THEN "ShownExisting" ELSE "ok")
    /\ UNCHANGED <<cache_cap, max_windows, windows, disk, shortcutVars,
                   storeVars, hist, tasks, recency, last>>

\* window.rs:107: enforce_window_limit, which holds the cache lock throughout
open_enforce(t) ==
    LET e == EnforceWindowLimit(active_windows, windows, max_windows, TRUE)
    IN  /\ threads[t].pc = "enforce"
        /\ active_windows' = e.cache
        /\ windows' = e.windows
        /\ threads' = Goto(t, "build")
        /\ UNCHANGED <<cache_cap, max_windows, disk, shortcutVars,
                       storeVars, hist, tasks, recency, last>>

\* window.rs:110-129: builder.build(); the runtime refuses a label that is in use
open_build(t) ==
    LET id == threads[t].id
        built == [AllOk EXCEPT !.build = (windows[id] = "none")]
        e == OpenEffects([windows EXCEPT ![id] = "none"], env_proxy, id, TRUE, built,
                         ProxyUrlFor(app_config, id), InjectsOnLoad(app_config, id))
    IN  /\ threads[t].pc = "build"
        /\ e.spawn => tasks[id] < MaxPending
        /\ env_proxy' = e.env
        /\ tasks' = IF e.spawn THEN [tasks EXCEPT ![id] = @ + 1] ELSE tasks
        /\ IF windows[id] # "none"
           THEN /\ threads' = Return(t, "err")
                /\ UNCHANGED <<windows, hist>>
           ELSE /\ windows' = Focus(windows, id)
                /\ hist' = [hist EXCEPT !.builds[id] = @ + 1]
                /\ threads' = Goto(t, "put")
        /\ UNCHANGED <<active_windows, cache_cap, max_windows, disk, shortcutVars,
                       app_config, file, issued, recency, last>>

\* window.rs:172-182: lock the cache, cache.put, return
open_put(t) ==
    /\ threads[t].pc = "put"
    /\ active_windows' = LruPut(active_windows, cache_cap, threads[t].id)
    /\ threads' = Return(t, IF threads[t].op = "toggle" THEN "CreatedNew" ELSE "ok")
    /\ UNCHANGED <<cache_cap, max_windows, windows, disk, shortcutVars,
                   storeVars, hist, tasks, recency, last>>

NextConcurrent ==
    \/ \E t \in Threads, id \in Ids : open_begin(t, id)
    \/ \E t \in Threads, id \in Ids : toggle_begin(t, id)
    \/ \E t \in Threads : toggle_look(t)
    \/ \E t \in Threads : open_check(t)
    \/ \E t \in Threads : open_touch(t)
    \/ \E t \in Threads : open_enforce(t)
    \/ \E t \in Threads : open_build(t)
    \/ \E t \in Threads : open_put(t)

SpecConcurrent == InitConcurrent /\ [][NextConcurrent]_vars

\* a thread enters WindowManager::close_webapp
close_begin(t, id) ==
    /\ threads[t].pc = "idle"
    /\ threads' = [threads EXCEPT ![t] = [pc |-> "close", op |-> "close", id |-> id, res |-> "none"]]
    /\ UNCHANGED <<poolVars, disk, shortcutVars, storeVars, hist, tasks, recency, last>>

\* close_webapp, window.rs:189-191: look the window up and close it
close_window(t) ==
    /\ threads[t].pc = "close"
    /\ windows' = Destroy(windows, threads[t].id)
    /\ threads' = Goto(t, "pop")
    /\ UNCHANGED <<active_windows, cache_cap, max_windows, disk, shortcutVars,
                   storeVars, hist, tasks, recency, last>>

\* close_webapp, window.rs:193-197: lock the cache, cache.pop, return
close_pop(t) ==
    /\ threads[t].pc = "pop"
    /\ active_windows' = LruPop(active_windows, threads[t].id)
    /\ threads' = Return(t, "ok")
    /\ UNCHANGED <<cache_cap, max_windows, windows, disk, shortcutVars,
                   storeVars, hist, tasks, recency, last>>

\* open and close calls served concurrently
NextOpenClose ==
    \/ \E t \in Threads, id \in Ids : open_begin(t, id)
    \/ \E t \in Threads : open_check(t)
    \/ \E t \in Threads : open_touch(t)
    \/ \E t \in Threads : open_enforce(t)
    \/ \E t \in Threads : open_build(t)
    \/ \E t \in Threads : open_put(t)
    \/ \E t \in Threads, id \in Ids : close_begin(t, id)
    \/ \E t \in Threads : close_window(t)
    \/ \E t \in Threads : close_pop(t)

SpecOpenClose == InitConcurrent /\ [][NextOpenClose]_vars

\* ------------------------------------------- concurrent ConfigStore calls
\* ConfigManager::update runs the closure under the write lock (one step) and
\* writes the copy to the file after releasing it (another step).

InitConcurrentStore ==
    /\ active_windows = <<>>
    /\ cache_cap = Max(DefaultConfig.max_active_windows, 1)
    /\ max_windows = DefaultConfig.max_active_windows
    /\ windows = [i \in Ids |-> "none"]
    /\ disk = DiskView(DefaultConfig)
    /\ registered = <<>>
    /\ listeners = [k \in Keys |-> Unbound]
    /\ os_broken = {}
    /\ app_config = DefaultConfig
    /\ file = DefaultConfig
    /\ env_proxy = Unset
    /\ issued = 0
    /\ threads = [t \in Threads |-> Idle]
    /\ hist = [NoHistory EXCEPT !.max = DefaultConfig.max_active_windows]
    /\ tasks = NoTasks
    /\ recency = <<>>
    /\ last = [op |-> "new", id |-> 0, res |-> "ok", again |-> FALSE]

\* the RwLock of the ConfigManager is free: no thread is inside replace, which
\* holds the write guard until it returns (config.rs:56-59)
LockFree == \A t \in Threads : threads[t].pc # "replace_write"

\* add_webapp, commands.rs:59-73: WebApp::new, then the closure under the lock
add_webapp_update(t, shortcut) ==
    LET id == issued + 1
        new == AddMutator(app_config, id, shortcut)
    IN  /\ threads[t].pc = "idle"
        /\ LockFree
        /\ issued < MaxAdded
        /\ issued' = id
        /\ app_config' = new
        /\ threads' = [threads EXCEPT ![t] =
               [pc |-> "write", op |-> "add", id |-> id, shortcut |-> shortcut,
                copy |-> new, res |-> "none"]]
        /\ UNCHANGED <<poolVars, disk, shortcutVars, file, env_proxy, hist, tasks, recency, last>>

\* set_max_active_windows, commands.rs:247-251: refuse zero, else set_max_windows
set_max_begin(t, n) ==
    LET m == SetMaxWindows(active_windows, n)
    IN  /\ threads[t].pc = "idle"
        /\ IF n = 0
           THEN /\ threads' = [threads EXCEPT ![t] =
                       [pc |-> "done", op |-> "set_max", id |-> n, res |-> "err"]]
                /\ UNCHANGED <<active_windows, cache_cap, max_windows>>
           ELSE /\ threads' = [threads EXCEPT ![t] =
                       [pc |-> "update", op |-> "set_max", id |-> n, res |-> "none"]]
                /\ cache_cap' = m.cap
                /\ max_windows' = m.max
                /\ active_windows' = m.cache
        /\ UNCHANGED <<windows, disk, shortcutVars, storeVars, hist, tasks, recency, last>>

\* set_max_active_windows, commands.rs:254-257: the closure under the lock
set_max_update(t) ==
    LET new == [app_config EXCEPT !.max_active_windows = threads[t].id]
    IN  /\ threads[t].pc = "update"
        /\ LockFree
        /\ app_config' = new
        /\ hist' = [hist EXCEPT !.max = threads[t].id]
        /\ threads' = [threads EXCEPT ![t] =
               [pc |-> "write", op |-> "set_max", id |-> threads[t].id,
                copy |-> new, res |-> "none"]]
        /\ UNCHANGED <<poolVars, disk, shortcutVars, file, env_proxy, issued, tasks, recency, last>>

\* ConfigManager::update, config.rs:50-51: write the copy taken under the lock
update_write(t, write_ok) ==
    LET w == WriteToFile(file, threads[t].copy, write_ok)
    IN  /\ threads[t].pc = "write"
        /\ file' = w.file
        /\ disk' = DiskView(w.file)
        /\ threads' = IF w.res = "err" THEN Return(t, "err")
                      ELSE IF threads[t].op = "add" THEN Goto(t, "register")
                      ELSE Return(t, "ok")
        /\ UNCHANGED <<poolVars, shortcutVars, app_config, env_proxy, issued,
                       hist, tasks, recency, last>>

\* add_webapp, commands.rs:76-85: register the shortcut, dropping its error
add_webapp_register(t) ==
    LET sc == threads[t].shortcut
        g == IF sc # NoShortcut /\ sc # Empty
             THEN Register(registered, listeners, os_broken, sc, threads[t].id)
             ELSE [registered |-> registered, listeners |-> listeners, res |-> "skip"]
    IN  /\ threads[t].pc = "register"
        /\ registered' = g.registered
        /\ listeners' = g.listeners
        /\ threads' = Return(t, "ok")
        /\ UNCHANGED <<poolVars, disk, os_broken, storeVars, hist, tasks, recency, last>>

NextConcurrentStore ==
    \/ \E t \in Threads, shortcut \in ShortcutOptions : add_webapp_update(t, shortcut)
    \/ \E t \in Threads, n \in 0..MaxWindows : set_max_begin(t, n)
    \/ \E t \in Threads : set_max_update(t)
    \/ \E t \in Threads, write_ok \in BOOLEAN : update_write(t, write_ok)
    \/ \E t \in Threads : add_webapp_register(t)

SpecConcurrentStore == InitConcurrentStore /\ [][NextConcurrentStore]_vars

\* ------------------------------------------ enforce_window_limit, stepwise
\* The loop of enforce_window_limit, one iteration per step, from any registry
\* and limit: the limit is read once, and the cache lock is held until the
\* function returns.

EnforceIter_PeekOnly(cache, w, close_ok) ==
    LET victim == Head(cache)
    IN  [cache |-> cache,
         windows |-> IF w[victim] # "none" /\ close_ok THEN Destroy(w, victim) ELSE w]

\* window.rs:257-262: pop_lru, and close the window of the entry if it exists
EnforceIter(cache, w, close_ok) ==
    LET victim == Head(cache)
    IN  [cache |-> Tail(cache),
         windows |-> IF w[victim] # "none" /\ close_ok THEN Destroy(w, victim) ELSE w]

\* any registry of distinct identities, any limit, and for every entry a window
\* that exists or was closed behind the pool's back
InitEnforce ==
    /\ max_windows \in 0..MaxWindows
    /\ cache_cap = NumIds
    /\ active_windows \in Registries(NumIds)
    /\ windows \in {w \in [Ids -> {"none", "hidden"}] :
                       \A i \in Ids : i \notin Range(active_windows) => w[i] = "none"}
    /\ disk = DiskConfig
    /\ registered = <<>>
    /\ listeners = [k \in Keys |-> Unbound]
    /\ os_broken = {}
    /\ app_config = StartConfig
    /\ file = StartConfig
    /\ env_proxy = Unset
    /\ issued = NumIds
    /\ threads = [t \in Threads |-> Idle]
    /\ hist = [NoHistory EXCEPT !.start = active_windows]
    /\ tasks = NoTasks
    /\ recency = active_windows
    /\ last = [op |-> "new", id |-> 0, res |-> "ok", again |-> FALSE]

\* window.rs:252-253: read the limit, lock the cache
enforce_begin(t) ==
    /\ threads[t].pc = "idle"
    /\ \A u \in Threads : threads[u].pc # "loop"
    /\ threads' = [threads EXCEPT ![t] =
           [pc |-> "loop", op |-> "enforce", id |-> 0, max |-> max_windows,
            res |-> "none"]]
    /\ UNCHANGED <<poolVars, disk, shortcutVars, storeVars, hist, tasks, recency, last>>

\* window.rs:255-262: the loop condition holds and pop_lru returns an entry
enforce_iterate(t, close_ok) ==
    LET e == EnforceIter(active_windows, windows, close_ok)
    IN  /\ threads[t].pc = "loop"
        /\ Len(active_windows) >= threads[t].max
        /\ Len(active_windows) > 0
        /\ active_windows' = e.cache
        /\ windows' = e.windows
        /\ recency' = Kept(recency, e.cache)
        /\ UNCHANGED <<cache_cap, max_windows, disk, shortcutVars, storeVars,
                       threads, hist, tasks, last>>

\* window.rs:255, 263-268: the loop condition fails, or pop_lru returns None
enforce_return(t) ==
    /\ threads[t].pc = "loop"
    /\ Len(active_windows) < threads[t].max \/ Len(active_windows) = 0
    /\ threads' = Return(t, "ok")
    /\ UNCHANGED <<poolVars, disk, shortcutVars, storeVars, hist, tasks, recency, last>>

NextEnforce ==
    \/ \E t \in Threads : enforce_begin(t)
    \/ \E t \in Threads, close_ok \in BOOLEAN : enforce_iterate(t, close_ok)
    \/ \E t \in Threads : enforce_return(t)

\* a thread that runs keeps running
SpecEnforce == InitEnforce /\ [][NextEnforce]_vars /\ WF_vars(NextEnforce)

\* ------------------------------------------------ concurrent register calls
\* ShortcutManager::register takes the lock of the map for the duplicate check
\* and again for the insert; on_shortcut runs between the two, on the main
\* thread, where the calls of the OS listener table are serialized.

OsRefuses_Never(lis, broken, k) == k \in broken

\* on_shortcut fails for a shortcut the OS does not serve or that has a listener
OsRefuses(lis, broken, k) == k \in broken \/ lis[k] # Unbound

\* the register call of thread t returns an error; history: the statement that
\* raised it
Refused(t, by) ==
    [threads EXCEPT ![t] = [@ EXCEPT !.pc = "done", !.res = "err", !.by = by]]

\* register, shortcuts.rs:35-37: parse the string
register_begin(t, s, target) ==
    /\ threads[t].pc = "idle"
    /\ threads' = [threads EXCEPT ![t] =
           IF Parse(s) = 0
           THEN [pc |-> "done", op |-> "register", s |-> s, id |-> target,
                 res |-> "err", by |-> "parse"]
           ELSE [pc |-> "reg_check", op |-> "register", s |-> s, id |-> target,
                 res |-> "none", by |-> "none"]]
    /\ UNCHANGED <<poolVars, disk, shortcutVars, storeVars, hist, tasks, recency, last>>

\* register, shortcuts.rs:40-45: lock the map, refuse a string it holds
register_check(t) ==
    /\ threads[t].pc = "reg_check"
    /\ threads' = IF threads[t].s \in DOMAIN registered
                  THEN Refused(t, "map") ELSE Goto(t, "reg_os")
    /\ UNCHANGED <<poolVars, disk, shortcutVars, storeVars, hist, tasks, recency, last>>

\* register, shortcuts.rs:51-57: on_shortcut installs the listener
register_os(t) ==
    LET k == Parse(threads[t].s)
    IN  /\ threads[t].pc = "reg_os"
        /\ IF OsRefuses(listeners, os_broken, k)
           THEN threads' = Refused(t, "os") /\ listeners' = listeners
           ELSE /\ threads' = Goto(t, "reg_insert")
                /\ listeners' = [listeners EXCEPT ![k] = threads[t].id]
        /\ UNCHANGED <<poolVars, disk, registered, os_broken, storeVars, hist, tasks,
                       recency, last>>

\* register, shortcuts.rs:60-68: lock the map, insert, return
register_insert(t) ==
    /\ threads[t].pc = "reg_insert"
    /\ registered' = MapInsert(registered, threads[t].s, threads[t].id)
    /\ threads' = Return(t, "ok")
    /\ UNCHANGED <<poolVars, disk, listeners, os_broken, storeVars, hist, tasks,
                   recency, last>>

NextRegister ==
    \/ \E t \in Threads, s \in HotkeyStrings, target \in ConfigTargets :
           register_begin(t, s, target)
    \/ \E t \in Threads : register_check(t)
    \/ \E t \in Threads : register_os(t)
    \/ \E t \in Threads : register_insert(t)

SpecRegister == InitShortcuts /\ [][NextRegister]_vars

\* save_config, commands.rs:23-26 and config.rs:56-57: validate the proxy, take
\* the write lock, assign the memory
save_begin(t, new) ==
    /\ threads[t].pc = "idle"
    /\ IF ValidateConfig(new.proxy) = "err"
       THEN /\ threads' = [threads EXCEPT ![t] =
                   [pc |-> "done", op |-> "save", id |-> 0, res |-> "err"]]
            /\ UNCHANGED <<app_config, hist>>
       ELSE /\ LockFree
            /\ app_config' = new
            /\ hist' = [hist EXCEPT !.max = new.max_active_windows]
            /\ threads' = [threads EXCEPT ![t] =
                   [pc |-> "replace_write", op |-> "save", id |-> 0, copy |-> new,
                    res |-> "none"]]
    /\ UNCHANGED <<poolVars, disk, shortcutVars, file, env_proxy, issued, tasks,
                   recency, last>>

\* ConfigManager::replace, config.rs:58-59: write_to_file with the guard alive,
\* which is dropped on return
save_write(t, write_ok) ==
    LET w == WriteToFile(file, threads[t].copy, write_ok)
    IN  /\ threads[t].pc = "replace_write"
        /\ file' = w.file
        /\ disk' = DiskView(w.file)
        /\ threads' = IF w.res = "err" THEN Return(t, "err") ELSE Goto(t, "apply")
        /\ UNCHANGED <<poolVars, shortcutVars, app_config, env_proxy, issued,
                       hist, tasks, recency, last>>

\* save_config, commands.rs:29-40: apply_proxy, set_max_windows,
\* load_shortcuts_from_config
save_apply(t) ==
    LET new == threads[t].copy
        m == SetMaxWindows(active_windows, new.max_active_windows)
        l == LoadShortcutsFromConfig(registered, listeners, os_broken, new)
    IN  /\ threads[t].pc = "apply"
        /\ env_proxy' = ApplyProxy(env_proxy, new.proxy)
        /\ cache_cap' = m.cap
        /\ max_windows' = m.max
        /\ active_windows' = m.cache
        /\ recency' = Kept(recency, m.cache)
        /\ registered' = l.registered
        /\ listeners' = l.listeners
        /\ threads' = Return(t, "ok")
        /\ UNCHANGED <<windows, disk, os_broken, app_config, file, issued,
                       hist, tasks, last>>

\* commands::get_config: ConfigManager::read takes the read lock
get_config(t) ==
    /\ threads[t].pc = "idle"
    /\ LockFree
    /\ threads' = [threads EXCEPT ![t] =
           [pc |-> "done", op |-> "read", id |-> 0, res |-> "ok"]]
    /\ UNCHANGED <<poolVars, disk, shortcutVars, storeVars, hist, tasks, recency, last>>

\* the settings commands and reads served concurrently
NextStoreLock ==
    \/ \E t \in Threads, new \in SaveStore : save_begin(t, new)
    \/ \E t \in Threads, write_ok \in BOOLEAN : save_write(t, write_ok)
    \/ \E t \in Threads : save_apply(t)
    \/ \E t \in Threads, n \in 0..MaxWindows : set_max_begin(t, n)
    \/ \E t \in Threads : set_max_update(t)
    \/ \E t \in Threads, write_ok \in BOOLEAN : update_write(t, write_ok)
    \/ \E t \in Threads : get_config(t)

SpecStoreLock == InitConcurrentStore /\ [][NextStoreLock]_vars


\* ---------------------------------------------------------------- claims

Entries(cache, id) == Cardinality({i \in 1..Len(cache) : cache[i] = id})

IsOpenStep(id) == last'.op = "open" /\ last'.id = id

IsToggleStep(id) == last'.op = "toggle" /\ last'.id = id

\* C1: whenever max_active_windows >= 1, the registry holds at most
\* max_active_windows entries, each identity at most once, after every call.
C1_CapacityInvariant ==
    max_windows >= 1 =>
        /\ Len(active_windows) <= max_windows
        /\ \A id \in Ids : Entries(active_windows, id) <= 1

\* an open that filled the registry to its capacity while another window was evicted
C1_Witness ==
    /\ last.op = "open" /\ last.res = "ok"
    /\ max_windows >= 1 /\ Len(active_windows) = max_windows
    /\ \E id \in Ids : id \notin Range(active_windows) /\ windows[id] = "none"
                        /\ id # last.id

\* C2: after every call (open, toggle, close, set_max_windows, hotkey trigger)
\* at most max_active_windows webapp windows are live.
C2_LiveWindowBound ==
    max_windows >= 1 => Cardinality(Live(windows)) <= max_windows

\* C3: when opening a new identity finds the registry full (capacity N >= 1),
\* exactly one identity leaves the registry: the one whose last open-or-show
\* is the oldest among the current entries.
C3_LruCorrectness ==
    [][\A id \in Ids :
          ( /\ IsOpenStep(id) \/ IsToggleStep(id)
            /\ windows[id] = "none" /\ id \notin Range(active_windows)
            /\ max_windows >= 1 /\ Len(active_windows) = max_windows )
          => /\ Range(active_windows) \ Range(active_windows') = {Head(recency)}
             /\ last'.res # "err" =>
                    Range(active_windows') = (Range(active_windows) \ {Head(recency)}) \cup {id}
      ]_vars

\* capacity 2: open 1, open 2, a show of 1, then open 3 evicted 2 and left 1 and 3
C3_Witness ==
    /\ last.op = "open" /\ last.id = 3 /\ last.res = "ok"
    /\ max_windows = 2
    /\ active_windows = <<1, 3>>
    /\ windows[2] = "none"

\* C4: after open(id) is called twice in a row, both calls succeeding, the
\* registry holds exactly one entry for id and its window is live.
C4_IdempotentOpen ==
    (last.op = "open" /\ last.res = "ok" /\ last.again) =>
        /\ Entries(active_windows, last.id) = 1
        /\ windows[last.id] # "none"

\* C5: a toggle that does not fail on the platform: on an absent identity it
\* returns CreatedNew and leaves exactly one entry and an active window; on an
\* active window with an entry it returns Hidden, hides the window and leaves
\* the registry and the recency as they were; on a hidden window with an entry
\* it returns ShownExisting, activates the window and makes the entry the most
\* recently used. No step creates another window or another entry.
C5_ToggleSymmetry ==
    [][\A id \in Ids :
          (IsToggleStep(id) /\ last'.res # "err") =>
            /\ (windows[id] = "none" /\ id \notin Range(active_windows)) =>
                  /\ last'.res = "CreatedNew"
                  /\ Entries(active_windows', id) = 1
                  /\ windows'[id] = "active"
                  /\ Live(windows') \subseteq Live(windows) \cup {id}
                  /\ Range(active_windows') \subseteq Range(active_windows) \cup {id}
            /\ (windows[id] = "active" /\ id \in Range(active_windows)) =>
                  /\ last'.res = "Hidden"
                  /\ windows'[id] = "hidden"
                  /\ active_windows' = active_windows
                  /\ recency' = recency
                  /\ Live(windows') = Live(windows)
            /\ (windows[id] = "hidden" /\ id \in Range(active_windows)) =>
                  /\ last'.res = "ShownExisting"
                  /\ windows'[id] = "active"
                  /\ Range(active_windows') = Range(active_windows)
                  /\ Entries(active_windows', id) = 1
                  /\ active_windows'[Len(active_windows')] = id
                  /\ recency'[Len(recency')] = id
                  /\ Live(windows') = Live(windows)
      ]_vars

\* a toggle showed a hidden window whose entry was not the most recently used
C5_Witness ==
    /\ last.op = "toggle" /\ last.res = "ShownExisting"
    /\ Len(active_windows) >= 2
    /\ active_windows[Len(active_windows)] = last.id
    /\ windows[last.id] = "active"

\* C6: an open that fails for a window that did not exist (bad url, or the
\* OS refusing the window) leaves the registry and the windows as they were.
C6_FailedOpenAtomic ==
    [][\A id \in Ids :
          (IsOpenStep(id) /\ last'.res = "err" /\ windows[id] = "none")
          => active_windows' = active_windows /\ windows' = windows
      ]_vars

\* C7: register(hotkey, identity) on a hotkey string bound to another identity
\* fails and changes neither the map nor the OS listeners.
C7_ShortcutUniqueness ==
    [][last'.op = "register" =>
          \A s \in DOMAIN registered, t \in ConfigTargets :
             (registered[s] # t /\ register_shortcut(s, t))
             => /\ last'.res = "err"
                /\ registered' = registered
                /\ listeners' = listeners
      ]_vars

\* a register has failed while a hotkey is bound to another identity and its
\* listener dispatches to that identity
C7_Witness ==
    /\ last.op = "register" /\ last.res = "err"
    /\ \E s \in DOMAIN registered :
          registered[s] # last.id /\ listeners[Parse(s)] = registered[s]

C9_ShrinkEvicts ==
    [][(last'.op = "set_max_windows" /\ Max(last'.id, 1) < Len(active_windows)) =>
          LET keep == Max(last'.id, 1)
              n == Len(active_windows)
          IN  /\ active_windows' = SubSeq(active_windows, n - keep + 1, n)
              /\ \A id \in Range(active_windows) \ Range(active_windows') :
                    windows'[id] = "none"
      ]_vars

\* C10: after close(identity) returns, whatever became of the window, the
\* registry holds no entry for identity.
C10_CloseUnconditional ==
    last.op = "close" => last.id \notin Range(active_windows)

\* C11: a hotkey trigger for a webapp changes the pool exactly as
\* toggle_webapp does for that identity with its stored record: a missing
\* window is created after the capacity is enforced and is registered as the
\* most recently used entry, a shown window has its recency bumped.
C11_TriggerIsToggle ==
    [][\A k \in Keys :
          (last'.op = "trigger" /\ last'.id = listeners[k] /\ listeners[k] \in Ids)
          => LET id == listeners[k]
                 url_ok == id \in DOMAIN disk.webapps /\ disk.webapps[id].url_ok
                 o == ToggleWebapp(active_windows, windows, cache_cap, max_windows,
                                   id, url_ok, AllOk)
             IN  active_windows' = o.cache /\ windows' = o.windows
      ]_vars

\* C12: a hotkey trigger for a webapp injects the webapp's script if and only
\* if it showed a window that already existed and the webapp has
\* inject_on_shortcut set with a script present.
C12_InjectOnShownExisting ==
    [][\A k \in Keys :
          (last'.op = "trigger" /\ last'.id = listeners[k] /\ listeners[k] \in Ids)
          => LET id == listeners[k]
                 shown == windows[id] = "hidden" /\ windows'[id] = "active"
                 wanted == /\ id \in DOMAIN disk.webapps
                           /\ disk.webapps[id].inject_on_shortcut
                           /\ disk.webapps[id].has_script
             IN  last'.inject <=> (shown /\ wanted)
      ]_vars

\* a shortcut value that is present: Some(s) with s non-empty
Carried(s) == s # NoShortcut /\ s # Empty

\* C13: in every configuration reached through add_webapp, update_webapp,
\* delete_webapp and save_config no two webapps share an id, no non-empty
\* shortcut string is held by two webapps or by a webapp and the main window,
\* and a webapp just added or updated with success holds no malformed shortcut.
C13_ConfigUniqueness ==
    LET w == app_config.webapps
    IN  /\ \A i, j \in 1..Len(w) :
              i < j => /\ w[i].id # w[j].id
                       /\ Carried(w[i].shortcut) => w[i].shortcut # w[j].shortcut
        /\ \A i \in 1..Len(w) :
              Carried(w[i].shortcut) => w[i].shortcut # app_config.main_window_shortcut
        /\ (last.op \in {"add_webapp", "update_webapp"} /\ last.res = "ok") =>
              \A i \in 1..Len(w) : w[i].id = last.id => w[i].shortcut # Malformed

\* C14: a replace or update whose storage write fails returns an error and the
\* memory holds the new configuration; when the write succeeds the call returns
\* success, and memory and file hold the new configuration.
C14_PersistFailureKeepsMemory ==
    last.store # "none" =>
        /\ app_config = last.asked
        /\ last.write_ok => (last.store = "ok" /\ last.res = "ok" /\ file = last.asked)
        /\ ~last.write_ok => (last.store = "err" /\ last.res = "err")

\* a failed write left the new configuration in memory and an older one on file
C14_Witness ==
    /\ last.store = "err" /\ ~last.write_ok
    /\ app_config = last.asked
    /\ file # app_config

\* the proxy settings the validation must refuse
InvalidProxy(proxy) ==
    /\ proxy.enabled
    /\ \/ proxy.host = ""
       \/ proxy.port = 0
       \/ proxy.proxy_type \notin {"http", "https", "socks5"}

\* C15: save_config and set_proxy_config with an enabled proxy that has an
\* empty host, a zero port or an unknown type return an error and leave the
\* memory, the file, the pool capacity and the hotkey bindings unchanged.
C15_ProxyValidationFirst ==
    [][/\ \A new \in SaveSettings :
              (InvalidProxy(new.proxy) /\ save_config(new, TRUE))
              => /\ last'.res = "err"
                 /\ UNCHANGED <<app_config, file, cache_cap, max_windows,
                                registered, listeners>>
       /\ \A proxy \in Proxies :
              (InvalidProxy(proxy) /\ set_proxy_config(proxy, TRUE))
              => /\ last'.res = "err"
                 /\ UNCHANGED <<app_config, file, cache_cap, max_windows,
                                registered, listeners>>
      ]_vars

\* a save was refused while a proxy was enabled and a hotkey was bound
C15_Witness ==
    /\ last.op = "save_config" /\ last.res = "err" /\ last.store = "none"
    /\ app_config.proxy = GoodProxy
    /\ DOMAIN registered # {}
    /\ file = app_config

\* C16: max_active_windows of the configuration, and with it the limit of the
\* pool, is at least 1 in every state.
C16_MaxAtLeastOne ==
    app_config.max_active_windows >= 1 /\ max_windows >= 1

\* C17: unregister of a well-formed hotkey string returns success and leaves
\* the string without a mapping and its shortcut without an OS listener, also
\* when the string was not in the map; it fails only on an unparsable string.
C17_UnregisterSucceeds ==
    [][\A s \in HotkeyStrings :
          unregister_shortcut(s) =>
             /\ Parse(s) # 0 =>
                   /\ last'.res = "ok"
                   /\ s \notin DOMAIN registered'
                   /\ listeners'[Parse(s)] = Unbound
             /\ last'.res = "err" => Parse(s) = 0
      ]_vars

\* the calls in progress or returned
Begun == {t \in Threads : threads[t].pc # "idle"}

\* C19: while open or toggle calls run concurrently on distinct identities
\* that were absent when they began, at no point are more than
\* max_active_windows webapp windows live or more entries in the registry.
C19_NoTransientOverflow ==
    ( /\ \A t, u \in Begun : t # u => threads[t].id # threads[u].id
      /\ \A t \in Begun : threads[t].id \notin Range(hist.start) )
    => /\ Cardinality(Live(windows)) <= max_windows
       /\ Len(active_windows) <= max_windows

\* C20: once two concurrent open or toggle calls for the same identity, absent
\* when they began, have both returned, its window was created exactly once,
\* the registry holds exactly one entry for it, no more entries were evicted
\* than one open evicts, and both calls returned success.
C20_NoDuplicateWork ==
    ( /\ Cardinality(Begun) >= 2
      /\ \A t \in Begun : threads[t].pc = "done"
      /\ \A t, u \in Begun : threads[t].id = threads[u].id
      /\ \A t \in Begun : threads[t].id \notin Range(hist.start) )
    => LET id == threads[CHOOSE t \in Begun : TRUE].id
           single == IF Len(hist.start) >= max_windows
                     THEN Len(hist.start) - max_windows + 1 ELSE 0
       IN  /\ hist.builds[id] = 1
           /\ Entries(active_windows, id) = 1
           /\ Cardinality(Range(hist.start) \ Range(active_windows)) <= single
           /\ \A t \in Begun : threads[t].res # "err"

\* the add_webapp calls whose closure has run
Adders == {t \in Begun : threads[t].op = "add"}

\* C18: concurrent updates are serialized in memory and none is lost: the
\* memory holds one webapp for every add_webapp whose closure has run, each
\* with order equal to the list length at its insertion, hence pairwise
\* distinct, and the limit set by the last serialized set_max_active_windows.
C18_UpdatesAtomic ==
    LET w == app_config.webapps
    IN  /\ Len(w) = Cardinality(Adders)
        /\ \A t \in Adders : \E i \in 1..Len(w) :
              w[i].id = threads[t].id /\ w[i].shortcut = threads[t].shortcut
        /\ \A i \in 1..Len(w) : w[i].order = i - 1
        /\ \A i, j \in 1..Len(w) : i # j => w[i].order # w[j].order
        /\ app_config.max_active_windows = hist.max

\* two add_webapp calls have both run their closure before either wrote the file
C18_Witness ==
    /\ Cardinality(Adders) = 2
    /\ \A t \in Adders : threads[t].pc = "write"
    /\ Len(app_config.webapps) = 2
    /\ app_config.webapps[2].order = 1

\* one call of the pool run alone, from the registry cache and the windows w
RunAlone(cache, w, call) ==
    IF call.op = "toggle"
    THEN ToggleWebapp(cache, w, cache_cap, max_windows, call.id, TRUE, AllOk)
    ELSE OpenWebapp(cache, w, cache_cap, max_windows, call.id, TRUE, AllOk)

\* the calls of threads t then u run one after the other from the start state
InOrder(t, u) ==
    LET a == RunAlone(hist.start, WindowsOf(hist.start), threads[t])
        b == RunAlone(a.cache, a.windows, threads[u])
    IN  [cache |-> b.cache, live |-> Live(b.windows),
         res |-> [x \in {t, u} |-> IF x = t THEN a.res ELSE b.res]]

\* C21: when an open or toggle that shows the existing window of A runs
\* concurrently with an open of another, absent identity that must evict, the
\* registry, the live windows and the two results, once both have returned,
\* are those of one of the two sequential orders of the calls.
C21_TouchBeforeEviction ==
    \A t, u \in Threads :
        ( /\ t # u
          /\ threads[t].pc = "done" /\ threads[u].pc = "done"
          /\ threads[t].id \in Range(hist.start)
          /\ threads[t].op = "toggle" => WindowsOf(hist.start)[threads[t].id] = "hidden"
          /\ threads[u].op = "open"
          /\ threads[u].id \notin Range(hist.start)
          /\ Len(hist.start) >= max_windows )
        => LET now == [cache |-> active_windows, live |-> Live(windows),
                       res |-> [x \in {t, u} |-> threads[x].res]]
           IN  now \in {InOrder(t, u), InOrder(u, t)}

\* C22: once a close(A) and an open(A) that ran concurrently have both
\* returned, A has no live window and no registry entry, or one live window
\* and exactly one registry entry.
C22_CloseOpenConverge ==
    \A t, u \in Threads :
        ( /\ threads[t].pc = "done" /\ threads[t].op = "open"
          /\ threads[u].pc = "done" /\ threads[u].op = "close"
          /\ threads[t].id = threads[u].id )
        => LET id == threads[t].id
           IN  \/ windows[id] = "none" /\ Entries(active_windows, id) = 0
               \/ windows[id] # "none" /\ Entries(active_windows, id) = 1

\* C23: an open schedules exactly one injection task when it created the
\* window of a webapp with inject_on_load and a script, and none when it showed
\* an existing window or failed; it returns with the task pending.  The task,
\* whenever it runs, ends without an error and leaves the registry, its
\* recency order, the capacity and the windows as they were.
C23_DeferredInjection ==
    [][/\ \A id \in Ids :
             IsOpenStep(id) =>
                tasks' = IF /\ windows[id] = "none"
                            /\ last'.res = "ok"
                            /\ InjectsOnLoad(app_config, id)
                         THEN [tasks EXCEPT ![id] = @ + 1]
                         ELSE tasks
       /\ last'.op = "injection" =>
             /\ last'.res \in {"injected", "logged"}
             /\ UNCHANGED <<active_windows, cache_cap, max_windows, windows, recency>>
      ]_vars

\* the task of a webapp ran after its window had been evicted or closed, while
\* the registry was full of other webapps
C23_Witness ==
    /\ last.op = "injection" /\ last.res = "logged"
    /\ InjectsOnLoad(app_config, last.id)
    /\ windows[last.id] = "none"
    /\ last.id \notin Range(active_windows)
    /\ Len(active_windows) = max_windows

\* C26: when open is called with a proxy url for a window that does not exist,
\* in an environment without a proxy setting, the environment is without a
\* proxy setting again when open returns, whether the window was created or
\* its creation failed.
C26_ProxyOverrideCleared ==
    [][\A id \in Ids :
          ( /\ IsOpenStep(id)
            /\ windows[id] = "none"
            /\ ProxyUrlFor(app_config, id) # Unset
            /\ env_proxy = Unset )
          => env_proxy' = Unset
      ]_vars

\* C24: while a storage write of update or of replace is in progress, a read
\* by another thread can complete: the lock of the ConfigStore is free.
C24_NoIoUnderLock ==
    \A t, u \in Threads :
        (threads[t].pc \in {"write", "replace_write"} /\ threads[u].pc = "idle")
        => ENABLED get_config(u)

\* the register calls that have returned
Registered == {t \in Threads : threads[t].pc = "done" /\ threads[t].op = "register"}

C27_EnforceTerminates ==
    /\ \A t \in Threads : (threads[t].pc = "loop") ~> (threads[t].pc = "done")
    /\ [][\A t \in Threads :
             (threads[t].pc = "loop" /\ active_windows' # active_windows)
             => /\ active_windows' = Tail(active_windows)
                /\ \A i \in Ids : i # Head(active_windows) => windows'[i] = windows[i]
                /\ windows'[Head(active_windows)] \in {"none", windows[Head(active_windows)]}
         ]_vars
    /\ [][\A t \in Threads :
             (threads[t].pc = "loop" /\ threads'[t].pc = "done")
             => (Len(active_windows') < max_windows \/ Len(active_windows') = 0)
         ]_vars

\* the loop emptied a registry of three entries under a limit of zero
C27_Witness ==
    \E t \in Threads :
        /\ threads[t].pc = "done" /\ threads[t].op = "enforce"
        /\ threads[t].max = 0
        /\ Len(hist.start) >= 3
        /\ active_windows = <<>>

\* C28: between the calls of the pool, an identity has a registry entry if and
\* only if its window is live.
C28_RegistryWindowsAgree ==
    \A id \in Ids : (id \in Range(active_windows)) <=> (windows[id] # "none")

\* C29: once concurrent update calls have all returned success, the
\* configuration on file equals the configuration in memory.
C29_PersistedConverges ==
    ( /\ Cardinality(Begun) >= 2
      /\ \A t \in Begun : threads[t].pc = "done" /\ threads[t].res = "ok" )
    => file = app_config

\* C30: update_webapp and delete_webapp applied to webapp A leave every
\* binding of another webapp B as it was: a hotkey string mapped to B stays
\* mapped to B, and a listener that dispatches to B stays installed.
C30_OtherBindingsKept ==
    [][last'.op \in {"update_webapp", "delete_webapp"} =>
          /\ \A s \in DOMAIN registered :
                (registered[s] \in Ids /\ registered[s] # last'.id)
                => (s \in DOMAIN registered' /\ registered'[s] = registered[s])
          /\ \A k \in Keys :
                (listeners[k] \in Ids /\ listeners[k] # last'.id)
                => listeners'[k] = listeners[k]
      ]_vars

\* C31: after startup and after every save_config or set_max_active_windows
\* call, whether it returned success or a persistence error, the capacity of
\* the pool is max(1, max_active_windows of the configuration in memory).
C31_CapacityTracksConfig ==
    cache_cap = Max(1, app_config.max_active_windows)

====
